---- MODULE Spec2Model ----
(***************************************************************************)
(* GlossaForge / LinguaGen view controller (src/App.tsx, final variant,    *)
(* lines 1637-1883) with the generation service (src/services/             *)
(* geminiService.ts) and the browser primitives the controller calls:      *)
(* JSON.stringify / JSON.parse, btoa / atob, encodeURIComponent / unescape *)
(* and their inverses, URLSearchParams, localStorage, FileReader.          *)
(*                                                                         *)
(* Text is modelled as sequences of Unicode code points (integers), so     *)
(* that serialisation, UTF-8 and base64 are computed, not assumed.         *)
(* JavaScript values are tagged records:                                   *)
(*   [t |-> "undefined"], [t |-> "null"], [t |-> "num", n |-> 3],          *)
(*   [t |-> "str", s |-> <<code points>>], [t |-> "arr", a |-> <<values>>],*)
(*   [t |-> "obj", p |-> <<[k |-> key, v |-> value], ...>>]                *)
(* An object keeps its properties in insertion order, as JavaScript does.  *)
(***************************************************************************)
EXTENDS Integers, Sequences, FiniteSets, TLC

\* ------------------------------------------------------------------------
\* JavaScript values
\* ------------------------------------------------------------------------
Undef == [t |-> "undefined"]
Null == [t |-> "null"]
Bool(b) == [t |-> "bool", b |-> b]
Str(s) == [t |-> "str", s |-> s]
Num(n) == [t |-> "num", n |-> n]
Arr(a) == [t |-> "arr", a |-> a]
Obj(p) == [t |-> "obj", p |-> p]
Prop(k, v) == [k |-> k, v |-> v]

IsStr(x) == x.t = "str"
IsArr(x) == x.t = "arr"
IsObj(x) == x.t = "obj"

\* JavaScript truthiness (the operand of !x and of x || y)
Truthy(x) ==
  CASE x.t = "undefined" -> FALSE
    [] x.t = "null" -> FALSE
    [] x.t = "str" -> x.s # <<>>
    [] x.t = "num" -> x.n # 0
    [] x.t = "bool" -> x.b
    [] OTHER -> TRUE

\* x || y
OrElse(x, y) == IF Truthy(x) THEN x ELSE y

HasKey(o, key) == \E i \in 1..Len(o.p) : o.p[i].k = key

\* o.key : the property's value, undefined when the object has none
Get(o, key) ==
  IF IsObj(o) /\ HasKey(o, key)
    THEN o.p[CHOOSE i \in 1..Len(o.p) : o.p[i].k = key].v
    ELSE Undef

\* { ...o, key: v } : an existing property keeps its place, a new one is
\* added last
Set(o, key, v) ==
  IF HasKey(o, key)
    THEN Obj([i \in 1..Len(o.p) |-> IF o.p[i].k = key THEN Prop(key, v) ELSE o.p[i]])
    ELSE Obj(Append(o.p, Prop(key, v)))

\* ------------------------------------------------------------------------
\* Code points used by the serialisers
\* ------------------------------------------------------------------------
cQuote == 34
cBackslash == 92
cComma == 44
cColon == 58
cLBrace == 123
cRBrace == 125
cLBracket == 91
cRBracket == 93
cPlus == 43
cSlash == 47
cEquals == 61
cSpace == 32
cZero == 48

IsDigit(c) == c >= 48 /\ c <= 57
\* JSON whitespace: space, tab, line feed, carriage return
IsJsonSpace(c) == c \in {32, 9, 10, 13}
\* ASCII whitespace removed by atob: tab, LF, FF, CR, space
IsAsciiSpace(c) == c \in {9, 10, 12, 13, 32}

\* ------------------------------------------------------------------------
\* JSON.stringify
\* ------------------------------------------------------------------------
RECURSIVE DigitsOf(_)
DigitsOf(n) == IF n < 10 THEN <<cZero + n>> ELSE DigitsOf(n \div 10) \o <<cZero + (n % 10)>>

RECURSIVE QuoteChars(_, _)
QuoteChars(s, i) ==
  IF i > Len(s) THEN <<>>
  ELSE (IF s[i] \in {cQuote, cBackslash} THEN <<cBackslash, s[i]>> ELSE <<s[i]>>)
       \o QuoteChars(s, i + 1)

QuoteJSONString(s) == <<cQuote>> \o QuoteChars(s, 1) \o <<cQuote>>

RECURSIVE JSONStringify(_)
RECURSIVE StringifyElems(_, _)
RECURSIVE StringifyProps(_, _, _)

\* array elements from index i on; undefined elements are written as null
StringifyElems(a, i) ==
  IF i > Len(a) THEN <<>>
  ELSE (IF i > 1 THEN <<cComma>> ELSE <<>>)
       \o (IF a[i].t = "undefined" THEN <<110, 117, 108, 108>> ELSE JSONStringify(a[i]))
       \o StringifyElems(a, i + 1)

\* properties from index i on; a property whose value is undefined is
\* left out; first tells whether a property was already written
StringifyProps(p, i, first) ==
  IF i > Len(p) THEN <<>>
  ELSE IF p[i].v.t = "undefined" THEN StringifyProps(p, i + 1, first)
  ELSE (IF first THEN <<>> ELSE <<cComma>>)
       \o QuoteJSONString(p[i].k) \o <<cColon>> \o JSONStringify(p[i].v)
       \o StringifyProps(p, i + 1, FALSE)

JSONStringify(x) ==
  CASE x.t = "null" -> <<110, 117, 108, 108>>
    [] x.t = "bool" -> IF x.b THEN <<116, 114, 117, 101>> ELSE <<102, 97, 108, 115, 101>>
    [] x.t = "num" -> DigitsOf(x.n)
    [] x.t = "str" -> QuoteJSONString(x.s)
    [] x.t = "arr" -> <<cLBracket>> \o StringifyElems(x.a, 1) \o <<cRBracket>>
    [] x.t = "obj" -> <<cLBrace>> \o StringifyProps(x.p, 1, TRUE) \o <<cRBrace>>

\* ------------------------------------------------------------------------
\* JSON.parse (numbers are non-negative integers): a result is [ok |-> TRUE, v |-> value, i |-> next index]
\* or the SyntaxError JSON.parse throws, with what the scanner met: the
\* end of the text where a token was due ("end"), the end of the text
\* inside a string literal ("string"), or a character that cannot be
\* there ("token")
\* ------------------------------------------------------------------------
Fail == [ok |-> FALSE]
SyntaxError(met) == [ok |-> FALSE, met |-> met]
\* the error for the character at i, or for the end of the text
Unexpected(s, i) == SyntaxError(IF i > Len(s) THEN "end" ELSE "token")
Ok(v, i) == [ok |-> TRUE, v |-> v, i |-> i]

RECURSIVE SkipSpace(_, _)
SkipSpace(s, i) == IF i <= Len(s) /\ IsJsonSpace(s[i]) THEN SkipSpace(s, i + 1) ELSE i

\* the character an escape letter stands for: \" \\ \/ \b \f \n \r \t
\* (\uXXXX escapes are not produced by the serialiser for the alphabets
\* used here and are not modelled)
EscapeLetters == {cQuote, cBackslash, cSlash, 98, 102, 110, 114, 116}
Unescaped(c) ==
  CASE c = 98 -> 8
    [] c = 102 -> 12
    [] c = 110 -> 10
    [] c = 114 -> 13
    [] c = 116 -> 9
    [] OTHER -> c

\* the characters of a string literal whose opening quote is before i
RECURSIVE ParseChars(_, _, _)
ParseChars(s, i, acc) ==
  IF i > Len(s) THEN SyntaxError("string")
  ELSE IF s[i] = cQuote THEN Ok(acc, i + 1)
  ELSE IF s[i] = cBackslash
    THEN IF i + 1 <= Len(s) /\ s[i + 1] \in EscapeLetters
           THEN ParseChars(s, i + 2, Append(acc, Unescaped(s[i + 1])))
           ELSE SyntaxError(IF i + 1 > Len(s) THEN "string" ELSE "token")
  ELSE IF s[i] < 32 THEN SyntaxError("token")
  ELSE ParseChars(s, i + 1, Append(acc, s[i]))

RECURSIVE ParseDigits(_, _, _)
ParseDigits(s, i, acc) ==
  IF i <= Len(s) /\ IsDigit(s[i])
    THEN ParseDigits(s, i + 1, 10 * acc + (s[i] - cZero))
    ELSE Ok(acc, i)

IsLiteralAt(s, i, lit) ==
  /\ i + Len(lit) - 1 <= Len(s)
  /\ \A j \in 1..Len(lit) : s[i + j - 1] = lit[j]

RECURSIVE ParseValue(_, _)
RECURSIVE ParseElems(_, _, _)
RECURSIVE ParseProps(_, _, _)

\* elements of an array after "[" or after a comma; i is at an element
ParseElems(s, i, acc) ==
  LET e == ParseValue(s, i) IN
  IF ~e.ok THEN e
  ELSE LET j == SkipSpace(s, e.i) IN
       IF j > Len(s) THEN Unexpected(s, j)
       ELSE IF s[j] = cComma THEN ParseElems(s, j + 1, Append(acc, e.v))
       ELSE IF s[j] = cRBracket THEN Ok(Arr(Append(acc, e.v)), j + 1)
       ELSE Unexpected(s, j)

\* properties of an object after "{" or after a comma; a repeated key
\* keeps its first place and takes the last value
ParseProps(s, i, acc) ==
  LET k0 == SkipSpace(s, i) IN
  IF k0 > Len(s) \/ s[k0] # cQuote THEN Unexpected(s, k0)
  ELSE LET key == ParseChars(s, k0 + 1, <<>>) IN
       IF ~key.ok THEN key
       ELSE LET c == SkipSpace(s, key.i) IN
            IF c > Len(s) \/ s[c] # cColon THEN Unexpected(s, c)
            ELSE LET e == ParseValue(s, c + 1) IN
                 IF ~e.ok THEN e
                 ELSE LET j == SkipSpace(s, e.i)
                          acc2 == Set(acc, key.v, e.v)
                      IN IF j > Len(s) THEN Unexpected(s, j)
                         ELSE IF s[j] = cComma THEN ParseProps(s, j + 1, acc2)
                         ELSE IF s[j] = cRBrace THEN Ok(acc2, j + 1)
                         ELSE Unexpected(s, j)

ParseValue(s, i0) ==
  LET i == SkipSpace(s, i0) IN
  IF i > Len(s) THEN Unexpected(s, i)
  ELSE IF s[i] = cQuote
    THEN LET r == ParseChars(s, i + 1, <<>>) IN IF r.ok THEN Ok(Str(r.v), r.i) ELSE r
  ELSE IF IsDigit(s[i])
    THEN IF s[i] = cZero /\ i + 1 <= Len(s) /\ IsDigit(s[i + 1]) THEN SyntaxError("token")
         ELSE LET r == ParseDigits(s, i, 0) IN Ok(Num(r.v), r.i)
  ELSE IF s[i] = cLBracket
    THEN LET j == SkipSpace(s, i + 1) IN
         IF j <= Len(s) /\ s[j] = cRBracket THEN Ok(Arr(<<>>), j + 1)
         ELSE ParseElems(s, j, <<>>)
  ELSE IF s[i] = cLBrace
    THEN LET j == SkipSpace(s, i + 1) IN
         IF j <= Len(s) /\ s[j] = cRBrace THEN Ok(Obj(<<>>), j + 1)
         ELSE ParseProps(s, j, Obj(<<>>))
  ELSE IF IsLiteralAt(s, i, <<110, 117, 108, 108>>) THEN Ok(Null, i + 4)
  ELSE IF IsLiteralAt(s, i, <<116, 114, 117, 101>>) THEN Ok(Bool(TRUE), i + 4)
  ELSE IF IsLiteralAt(s, i, <<102, 97, 108, 115, 101>>) THEN Ok(Bool(FALSE), i + 5)
  ELSE SyntaxError("token")

\* JSON.parse(text): the whole text must be one value
JSONParse(s) ==
  LET r == ParseValue(s, 1) IN
  IF ~r.ok THEN r
  ELSE IF SkipSpace(s, r.i) > Len(s) THEN [ok |-> TRUE, v |-> r.v]
  ELSE SyntaxError("token")

\* ------------------------------------------------------------------------
\* unescape(encodeURIComponent(s)) : the UTF-8 bytes of s, one character
\* per byte.  decodeURIComponent(escape(b)) : the strict UTF-8 decoding of
\* the byte string b, which throws URIError on an ill-formed sequence.
\* ------------------------------------------------------------------------
IsSurrogate(c) == c >= 55296 /\ c <= 57343

Utf8Char(c) ==
  IF c < 128 THEN <<c>>
  ELSE IF c < 2048 THEN <<192 + (c \div 64), 128 + (c % 64)>>
  ELSE IF c < 65536 THEN <<224 + (c \div 4096), 128 + ((c \div 64) % 64), 128 + (c % 64)>>
  ELSE <<240 + (c \div 262144), 128 + ((c \div 4096) % 64),
         128 + ((c \div 64) % 64), 128 + (c % 64)>>

\* the bytes of s[lo..hi], halving the range to keep the recursion shallow
RECURSIVE Utf8Range(_, _, _)
Utf8Range(s, lo, hi) ==
  IF lo > hi THEN <<>>
  ELSE IF lo = hi THEN Utf8Char(s[lo])
  ELSE LET mid == (lo + hi) \div 2 IN Utf8Range(s, lo, mid) \o Utf8Range(s, mid + 1, hi)

\* encodeURIComponent throws URIError on a lone surrogate
Utf8Encode(s) ==
  IF \E i \in 1..Len(s) : IsSurrogate(s[i]) THEN Fail
  ELSE [ok |-> TRUE, v |-> Utf8Range(s, 1, Len(s))]

IsCont(b, i) == i <= Len(b) /\ b[i] >= 128 /\ b[i] <= 191

\* the length of the sequence a lead byte announces, 0 for a byte that
\* cannot start one
Utf8Len(x) ==
  IF x < 128 THEN 1
  ELSE IF x >= 194 /\ x <= 223 THEN 2
  ELSE IF x >= 224 /\ x <= 239 THEN 3
  ELSE IF x >= 240 /\ x <= 244 THEN 4
  ELSE 0

\* the code point of the sequence that starts at i
Utf8At(b, i) ==
  LET x == b[i] IN
  CASE Utf8Len(x) = 1 -> x
    [] Utf8Len(x) = 2 -> (x - 192) * 64 + (b[i + 1] - 128)
    [] Utf8Len(x) = 3 -> (x - 224) * 4096 + (b[i + 1] - 128) * 64 + (b[i + 2] - 128)
    [] Utf8Len(x) = 4 -> (x - 240) * 262144 + (b[i + 1] - 128) * 4096
                         + (b[i + 2] - 128) * 64 + (b[i + 3] - 128)

\* a well-formed sequence starts at i: announced length, continuation
\* bytes, shortest form, no surrogate, at most U+10FFFF, and the byte
\* after it is not a stray continuation byte
Utf8WellFormedAt(b, i) ==
  LET n == Utf8Len(b[i]) IN
  /\ n > 0
  /\ \A j \in (i + 1)..(i + n - 1) : IsCont(b, j)
  /\ ~IsCont(b, i + n)
  /\ n = 3 => (Utf8At(b, i) >= 2048 /\ ~IsSurrogate(Utf8At(b, i)))
  /\ n = 4 => (Utf8At(b, i) >= 65536 /\ Utf8At(b, i) <= 1114111)

Utf8Decode(b) ==
  LET starts == SelectSeq([i \in 1..Len(b) |-> i], LAMBDA i : ~IsCont(b, i)) IN
  IF /\ ~IsCont(b, 1)
     /\ \A k \in 1..Len(starts) : Utf8WellFormedAt(b, starts[k])
    THEN [ok |-> TRUE, v |-> [k \in 1..Len(starts) |-> Utf8At(b, starts[k])]]
    ELSE Fail

\* ------------------------------------------------------------------------
\* encodeURIComponent(s), and the bytes a "data:" URL with that payload
\* downloads
\* ------------------------------------------------------------------------
cPercent == 37

\* A-Z a-z 0-9 - _ . ! ~ * ' ( ) are left as they are
IsUriUnreserved(c) ==
  \/ c >= 65 /\ c <= 90
  \/ c >= 97 /\ c <= 122
  \/ IsDigit(c)
  \/ c \in {45, 95, 46, 33, 126, 42, 39, 40, 41}

\* the escapes of the bytes b[lo..hi], halving the range
RECURSIVE PercentRange(_, _, _)
PercentRange(b, lo, hi) ==
  LET hex(v) == IF v < 10 THEN cZero + v ELSE 55 + v IN
  IF lo > hi THEN <<>>
  ELSE IF lo = hi
    THEN (IF IsUriUnreserved(b[lo]) THEN <<b[lo]>>
          ELSE <<cPercent, hex(b[lo] \div 16), hex(b[lo] % 16)>>)
  ELSE LET mid == (lo + hi) \div 2 IN
       PercentRange(b, lo, mid) \o PercentRange(b, mid + 1, hi)

\* every byte of the UTF-8 form that is not unreserved becomes %XX;
\* URIError on a lone surrogate
EncodeURIComponent(s) ==
  LET bytes == Utf8Encode(s) IN
  IF bytes.ok THEN [ok |-> TRUE, v |-> PercentRange(bytes.v, 1, Len(bytes.v))]
  ELSE Fail

\* the body of a data: URL, percent-decoded: "%" and two hex digits give a
\* byte, any other character is its own byte
PercentDecode(s) ==
  LET isHex(c) == IsDigit(c) \/ (c >= 65 /\ c <= 70) \/ (c >= 97 /\ c <= 102)
      hexValue(c) == IF IsDigit(c) THEN c - cZero
                     ELSE IF c >= 97 THEN c - 87 ELSE c - 55
      escapeAt(i) == /\ i >= 1
                     /\ i + 2 <= Len(s)
                     /\ s[i] = cPercent
                     /\ isHex(s[i + 1])
                     /\ isHex(s[i + 2])
      starts == SelectSeq([i \in 1..Len(s) |-> i],
                          LAMBDA i : ~escapeAt(i - 1) /\ ~escapeAt(i - 2))
  IN [k \in 1..Len(starts) |->
        IF escapeAt(starts[k])
          THEN 16 * hexValue(s[starts[k] + 1]) + hexValue(s[starts[k] + 2])
          ELSE s[starts[k]]]

\* FileReader.readAsText(file): the UTF-8 decoding of the file's bytes; an
\* ill-formed file reads as U+FFFD
ReadAsText(bytes) ==
  LET text == Utf8Decode(bytes) IN
  IF text.ok THEN text.v ELSE <<65533>>

\* ------------------------------------------------------------------------
\* btoa / atob
\* ------------------------------------------------------------------------
\* the base64 character of a 6-bit value: A-Z a-z 0-9 + /
B64Char(v) ==
  IF v < 26 THEN 65 + v
  ELSE IF v < 52 THEN 97 + (v - 26)
  ELSE IF v < 62 THEN 48 + (v - 52)
  ELSE IF v = 62 THEN cPlus
  ELSE cSlash

IsB64Char(c) ==
  \/ c >= 65 /\ c <= 90
  \/ c >= 97 /\ c <= 122
  \/ IsDigit(c)
  \/ c = cPlus
  \/ c = cSlash

B64Value(c) ==
  IF c >= 65 /\ c <= 90 THEN c - 65
  ELSE IF c >= 97 /\ c <= 122 THEN c - 97 + 26
  ELSE IF IsDigit(c) THEN c - 48 + 52
  ELSE IF c = cPlus THEN 62
  ELSE 63

\* btoa(b): throws when a character is above 255
Btoa(b) ==
  IF \E i \in 1..Len(b) : b[i] > 255 THEN Fail
  ELSE
    LET n == Len(b)
        groups == (n + 2) \div 3
        byte(i) == IF i <= n THEN b[i] ELSE 0
        char(j) ==
          LET g == (j - 1) \div 4
              k == (j - 1) % 4
              b1 == byte(3 * g + 1)
              b2 == byte(3 * g + 2)
              b3 == byte(3 * g + 3)
          IN CASE k = 0 -> B64Char(b1 \div 4)
               [] k = 1 -> B64Char((b1 % 4) * 16 + (b2 \div 16))
               [] k = 2 -> IF 3 * g + 2 > n THEN cEquals
                           ELSE B64Char((b2 % 16) * 4 + (b3 \div 64))
               [] k = 3 -> IF 3 * g + 3 > n THEN cEquals ELSE B64Char(b3 % 64)
    IN [ok |-> TRUE, v |-> [j \in 1..(4 * groups) |-> char(j)]]

RemoveAsciiSpace(s) == SelectSeq(s, LAMBDA c : ~IsAsciiSpace(c))

\* atob(s), the forgiving-base64 decode: ASCII whitespace is removed, up
\* to two trailing "=" are removed when the length is a multiple of 4, a
\* length of 1 mod 4 or a character outside the alphabet throws
Atob(s) ==
  LET d0 == RemoveAsciiSpace(s)
      n0 == Len(d0)
      pad == IF n0 % 4 = 0 /\ n0 > 0 /\ d0[n0] = cEquals
               THEN (IF d0[n0 - 1] = cEquals THEN 2 ELSE 1)
               ELSE 0
      d == SubSeq(d0, 1, n0 - pad)
      n == Len(d)
      nbytes == (n * 6) \div 8
      val(j) == IF j <= n THEN B64Value(d[j]) ELSE 0
      byte(i) ==
        LET g == (i - 1) \div 3
            k == (i - 1) % 3
            v1 == val(4 * g + 1)
            v2 == val(4 * g + 2)
            v3 == val(4 * g + 3)
            v4 == val(4 * g + 4)
        IN CASE k = 0 -> v1 * 4 + (v2 \div 16)
             [] k = 1 -> (v2 % 16) * 16 + (v3 \div 4)
             [] k = 2 -> (v3 % 4) * 64 + v4
  IN IF n % 4 = 1 \/ \E j \in 1..n : ~IsB64Char(d[j]) THEN Fail
     ELSE [ok |-> TRUE, v |-> [i \in 1..nbytes |-> byte(i)]]

\* ------------------------------------------------------------------------
\* URLSearchParams(search).get(name)
\* ------------------------------------------------------------------------
kShare == <<115, 104, 97, 114, 101>>
cQuestion == 63

\* the value of one "name=value" pair: "+" reads as a space
\* (application/x-www-form-urlencoded)
FormDecode(s) == [i \in 1..Len(s) |-> IF s[i] = cPlus THEN cSpace ELSE s[i]]

\* get('share') on a query string that is empty or "?share=" followed by a
\* value without "&" and "%": the value, or null when there is no pair
SearchParamsGetShare(search) ==
  LET prefix == <<cQuestion>> \o kShare \o <<cEquals>> IN
  IF Len(search) >= Len(prefix) /\ SubSeq(search, 1, Len(prefix)) = prefix
    THEN Str(FormDecode(SubSeq(search, Len(prefix) + 1, Len(search))))
    ELSE Null

\* ------------------------------------------------------------------------
\* The Conlang record (types: Conlang, GrammarRules, VocabularyWord)
\* ------------------------------------------------------------------------
kName == <<110, 97, 109, 101>>
kDescription == <<100, 101, 115, 99, 114, 105, 112, 116, 105, 111, 110>>
kPhonemes == <<112, 104, 111, 110, 101, 109, 101, 115>>
kVibe == <<118, 105, 98, 101>>
kVocabulary == <<118, 111, 99, 97, 98, 117, 108, 97, 114, 121>>
kGrammar == <<103, 114, 97, 109, 109, 97, 114>>
kWordOrder == <<119, 111, 114, 100, 79, 114, 100, 101, 114>>
kPluralRule == <<112, 108, 117, 114, 97, 108, 82, 117, 108, 101>>
kTenseRule == <<116, 101, 110, 115, 101, 82, 117, 108, 101>>
kAdjectivePlacement == <<97, 100, 106, 101, 99, 116, 105, 118, 101, 80, 108, 97, 99, 101, 109, 101, 110, 116>>
kId == <<105, 100>>
kCreatedAt == <<99, 114, 101, 97, 116, 101, 100, 65, 116>>
kNative == <<110, 97, 116, 105, 118, 101>>
kMeaning == <<109, 101, 97, 110, 105, 110, 103>>
kPronunciation == <<112, 114, 111, 110, 117, 110, 99, 105, 97, 116, 105, 111, 110>>

\* texts of the bounded alphabets: "SVO", "VSO", "T", "p", the IPA symbol
\* chi (U+03C7), "pa", the stressed form with U+02C8 and U+02B0, ...
sEmpty == <<>>
sSVO == <<83, 86, 79>>
sVSO == <<86, 83, 79>>
sT == <<84>>
sP == <<112>>
sChi == <<967>>
sPa == <<112, 97>>
sStressed == <<712, 112, 688, 97, 46, 116, 117>>
sVibe == <<118>>
sDesc == <<100>>
sM == <<109>>
sHi == <<104, 105>>
sSorry == <<83, 111, 114, 114, 121>>

Grammar(order) ==
  Obj(<<Prop(kWordOrder, Str(order)), Prop(kPluralRule, Str(sEmpty)),
        Prop(kTenseRule, Str(sEmpty)), Prop(kAdjectivePlacement, Str(sEmpty))>>)

Word(id, native) ==
  Obj(<<Prop(kId, Str(id)), Prop(kNative, Str(native)),
        Prop(kMeaning, Str(sM)), Prop(kPronunciation, Str(native))>>)

\* the record of useState's initial value and of handleStartNew
EmptyLang ==
  Obj(<<Prop(kName, Str(sEmpty)), Prop(kDescription, Str(sEmpty)),
        Prop(kPhonemes, Arr(<<>>)), Prop(kVibe, Str(sEmpty)),
        Prop(kVocabulary, Arr(<<>>)), Prop(kGrammar, Grammar(sSVO))>>)

\* a record after a generation, not saved yet
Generated(name, phonemes, vibe, words) ==
  Obj(<<Prop(kName, Str(name)), Prop(kDescription, Str(sDesc)),
        Prop(kPhonemes, Arr(phonemes)), Prop(kVibe, Str(vibe)),
        Prop(kVocabulary, Arr(words)), Prop(kGrammar, Grammar(sVSO))>>)

\* a record as handleSaveLang stores it
SavedLang(lang, id, createdAt) ==
  Set(Set(lang, kId, Str(id)), kCreatedAt, Num(createdAt))

\* ------------------------------------------------------------------------
\* Bounds and input alphabets
\* ------------------------------------------------------------------------
\* user actions in one behaviour that edit a field, ask for a call of the
\* service, save, delete or export a record, pick a file, share, or follow
\* a share link
MaxActions == 2

\* what the user types or picks
Names == {sEmpty, sT}
Vibes == {sVibe}
Symbols == {sChi}
Inputs == {sHi}

\* records saved by earlier sessions, with ids "a" and "b"
LangA == SavedLang(Generated(sT, <<Str(sChi)>>, sEmpty, <<Word(<<49>>, sPa)>>), <<97>>, 1)
LangB == SavedLang(Generated(sT, <<Str(sP)>>, sVibe, <<Word(<<49>>, sStressed)>>), <<98>>, 2)
\* a record saved in another browser, with id "c"
LangC == SavedLang(Generated(sT, <<Str(sP)>>, sEmpty, <<Word(<<49>>, sPa)>>), <<99>>, 3)
\* a record shared before it was ever saved
LangU == Generated(sT, <<Str(sP)>>, sEmpty, <<Word(<<49>>, sPa)>>)

\* ids Math.random().toString(36).substr(2, 9) yields, in the order drawn
FreshIds == << <<110, 49>>, <<110, 50>>, <<110, 51>> >>
\* the first reading of Date.now()
StartTime == 10
\* positions of the library's cards: the records first loaded and one
\* per fresh id
Cards == 1..(2 + Len(FreshIds))

\* ------------------------------------------------------------------------
\* The token of a share link (handleShare) and its decoding (startup)
\* ------------------------------------------------------------------------
\* btoa(unescape(encodeURIComponent(JSON.stringify(lang))))
ShareToken(lang) ==
  LET bytes == Utf8Encode(JSONStringify(lang)) IN
  IF bytes.ok THEN Btoa(bytes.v) ELSE Fail

\* `?share=${base64}`
ShareSearch(token) == <<cQuestion>> \o kShare \o <<cEquals>> \o token

\* JSON.parse(decodeURIComponent(escape(atob(sharedData))))
DecodeShare(sharedData) ==
  LET bytes == Atob(sharedData) IN
  IF ~bytes.ok THEN Fail
  ELSE LET text == Utf8Decode(bytes.v) IN
       IF ~text.ok THEN Fail ELSE JSONParse(text.v)

Take(s, n) == SubSeq(s, 1, n)

\* The page when it is first opened, as pairs of the 'glossaforge_saved'
\* item and window.location.search: two saved records and the share link
\* of an unsaved record; no item and no query; an item that is not JSON
\* and a share link with characters outside base64
FirstPages ==
  { <<Str(JSONStringify(Arr(<<LangB, LangA>>))), ShareSearch(ShareToken(LangU).v)>>,
    <<Null, <<>> >>,
    <<Str(<<cLBracket, cLBrace>>), ShareSearch(<<33, 33, 33, 33>>)>> }

\* files the user can pick, as bytes: a record exported in another
\* browser, a file cut short
Files == { JSONStringify(LangC), Take(JSONStringify(LangC), 40),
           JSONStringify(Obj(<<>>)) }

\* ------------------------------------------------------------------------
\* State
\* ------------------------------------------------------------------------
AppStates == {"HOME", "EDITOR", "SAVED"}
Kinds == {"generate", "extend", "translate", "ask", "suggest", "expand"}
\* error === null
NoError == "(null)"

VARIABLES
  pc,                 \* "boot": rendered, mount effect not yet run; "run"
  search,             \* window.location.search
  localStorage,       \* the 'glossaforge_saved' item: Null or Str(text)
  clipboard,          \* the query of the URL last written to the clipboard
  reading,            \* the text a FileReader is reading: Null or Str(text)
  exports,            \* the files handleExportJson downloaded, each with
                      \* the record it was made of
  appState,
  savedLangs,         \* Arr of records
  currentLang,
  isGenerating, isExtending, isTranslating,
  isSuggestingSounds, isExpandingVibe, isAsking,
  translationInput, translationResult,
  assistantQuery, assistantChat,
  error,
  pending,            \* requests awaiting the service, per kind
  nextId,             \* ids drawn from Math.random so far
  now,                \* Date.now()
  used,               \* user actions counted against MaxActions
  sharedLang,         \* history: the record the clipboard's link was made of
  saves,              \* history: the number of handleSaveLang calls
  picked,             \* history: the bytes of the file last picked, <<>> for none
  superseded          \* history: per kind, the requests awaiting the service
                      \* that were made for a record replaced since

react == <<appState, savedLangs, currentLang, isGenerating, isExtending,
           isTranslating, isSuggestingSounds, isExpandingVibe, isAsking,
           translationInput, translationResult, assistantQuery,
           assistantChat, error>>
flags == <<isGenerating, isExtending, isTranslating, isSuggestingSounds,
           isExpandingVibe, isAsking>>
assistant == <<translationInput, translationResult, assistantQuery, assistantChat>>
browser == <<search, localStorage, clipboard, reading, exports>>
env == <<nextId, now>>
history == <<sharedLang, saves, picked>>
requests == <<pending, superseded>>
vars == <<pc, search, localStorage, clipboard, reading, exports, appState, savedLangs,
          currentLang, isGenerating, isExtending, isTranslating,
          isSuggestingSounds, isExpandingVibe, isAsking, translationInput,
          translationResult, assistantQuery, assistantChat, error, pending,
          nextId, now, used, sharedLang, saves, picked, superseded>>

NoPending == [k \in Kinds |-> 0]

\* the values of the useState calls (App, lines 1638-1668)
Constructed ==
  /\ appState = "HOME"
  /\ savedLangs = Arr(<<>>)
  /\ currentLang = EmptyLang
  /\ isGenerating = FALSE
  /\ isExtending = FALSE
  /\ isTranslating = FALSE
  /\ isSuggestingSounds = FALSE
  /\ isExpandingVibe = FALSE
  /\ isAsking = FALSE
  /\ translationInput = sEmpty
  /\ translationResult = Null
  /\ assistantQuery = sEmpty
  /\ assistantChat = <<>>
  /\ error = NoError

Init ==
  /\ pc = "boot"
  /\ \E page \in FirstPages :
       /\ localStorage = page[1]
       /\ search = page[2]
  /\ clipboard = <<>>
  /\ reading = Null
  /\ exports = {}
  /\ Constructed
  /\ pending = NoPending
  /\ superseded = NoPending
  /\ nextId = 0
  /\ now = StartTime
  /\ used = 0
  /\ sharedLang = Null
  /\ saves = 0
  /\ picked = <<>>

\* ------------------------------------------------------------------------
\* Mount effect (useEffect, lines 1673-1695)
\* ------------------------------------------------------------------------
Startup ==
  /\ pc = "boot"
  /\ pc' = "run"
  /\ LET parsed == IF Truthy(localStorage) THEN JSONParse(localStorage.s) ELSE Fail IN
     savedLangs' = IF parsed.ok THEN parsed.v ELSE savedLangs
  /\ LET sharedData == SearchParamsGetShare(search)
         decoded == IF Truthy(sharedData) THEN DecodeShare(sharedData.s) ELSE Fail
     IN IF decoded.ok
          THEN /\ currentLang' = decoded.v
               /\ appState' = "EDITOR"
               /\ search' = <<>>
          ELSE UNCHANGED <<currentLang, appState, search>>
  /\ UNCHANGED <<localStorage, clipboard, reading, exports, flags, assistant,
                 error, requests, env, used, history>>

\* ------------------------------------------------------------------------
\* Navigation and editing
\* ------------------------------------------------------------------------
\* variant: a navigation bar that has the logo only
Navigate_LogoOnly(target) ==
  /\ pc = "run"
  /\ target = "HOME"
  /\ appState # target
  /\ appState' = target
  /\ UNCHANGED <<pc, browser, savedLangs, currentLang, flags, assistant, error,
                 requests, env, used, history>>

\* the logo and "Back Home" (lines 1143, 1910); "Library" (line 1153)
Navigate(target) ==
  /\ pc = "run"
  /\ target \in {"HOME", "SAVED"}
  /\ appState # target
  /\ appState' = target
  /\ UNCHANGED <<pc, browser, savedLangs, currentLang, flags, assistant, error,
                 requests, env, used, history>>

\* variant: the chat transcript is kept for the new project
HandleStartNew_KeepChat ==
  /\ pc = "run"
  /\ currentLang' = EmptyLang
  /\ translationResult' = Null
  /\ appState' = "EDITOR"
  /\ error' = NoError
  /\ superseded' = pending
  /\ UNCHANGED <<pc, browser, savedLangs, flags, translationInput,
                 assistantQuery, assistantChat, pending, env, used, history>>

\* handleStartNew (lines 1705-1723)
HandleStartNew ==
  /\ pc = "run"
  /\ currentLang' = EmptyLang
  /\ assistantChat' = <<>>
  /\ translationResult' = Null
  /\ appState' = "EDITOR"
  /\ error' = NoError
  /\ superseded' = pending
  /\ UNCHANGED <<pc, browser, savedLangs, flags, translationInput,
                 assistantQuery, pending, env, used, history>>

\* the library's Edit button (line 1926)
OpenSaved(i) ==
  /\ pc = "run"
  /\ appState = "SAVED"
  /\ i \in 1..Len(savedLangs.a)
  /\ currentLang' = savedLangs.a[i]
  /\ appState' = "EDITOR"
  /\ superseded' = pending
  /\ UNCHANGED <<pc, browser, savedLangs, flags, assistant, error, pending,
                 env, used, history>>

\* the error notification's dismiss button (line 1172)
DismissError ==
  /\ pc = "run"
  /\ error # NoError
  /\ error' = NoError
  /\ UNCHANGED <<pc, browser, appState, savedLangs, currentLang, flags,
                 assistant, requests, env, used, history>>

CanAct == used < MaxActions
Spend == used' = used + 1
CanEdit == pc = "run" /\ appState = "EDITOR" /\ CanAct

\* the name and vibe inputs (lines 863, 872)
SetName(n) ==
  /\ CanEdit
  /\ Get(currentLang, kName) # Str(n)
  /\ currentLang' = Set(currentLang, kName, Str(n))
  /\ Spend
  /\ UNCHANGED <<pc, browser, appState, savedLangs, flags, assistant, error,
                 requests, env, history>>

SetVibe(v) ==
  /\ CanEdit
  /\ Get(currentLang, kVibe) # Str(v)
  /\ currentLang' = Set(currentLang, kVibe, Str(v))
  /\ Spend
  /\ UNCHANGED <<pc, browser, appState, savedLangs, flags, assistant, error,
                 requests, env, history>>

\* IpaPicker.toggleSymbol on (currentLang.phonemes || []) and the picker's
\* onChange (lines 1026-1030)
ToggleSymbol(selected, symbol) ==
  IF \E i \in 1..Len(selected) : selected[i] = Str(symbol)
    THEN SelectSeq(selected, LAMBDA x : x # Str(symbol))
    ELSE Append(selected, Str(symbol))

PickSymbol(symbol) ==
  /\ CanEdit
  /\ LET selected == OrElse(Get(currentLang, kPhonemes), Arr(<<>>)) IN
     currentLang' = Set(currentLang, kPhonemes, Arr(ToggleSymbol(selected.a, symbol)))
  /\ error' = NoError
  /\ Spend
  /\ UNCHANGED <<pc, browser, appState, savedLangs, flags, assistant, requests,
                 env, history>>

\* the translation and assistant inputs (lines 948, 1007); the assistant
\* panel is rendered when the record has a description (line 899)
SetTranslationInput(text) ==
  /\ CanEdit
  /\ Truthy(Get(currentLang, kDescription))
  /\ translationInput # text
  /\ translationInput' = text
  /\ Spend
  /\ UNCHANGED <<pc, browser, appState, savedLangs, currentLang, flags,
                 translationResult, assistantQuery, assistantChat, error,
                 requests, env, history>>

SetAssistantQuery(text) ==
  /\ CanEdit
  /\ Truthy(Get(currentLang, kDescription))
  /\ assistantQuery # text
  /\ assistantQuery' = text
  /\ Spend
  /\ UNCHANGED <<pc, browser, appState, savedLangs, currentLang, flags,
                 translationInput, translationResult, assistantChat, error,
                 requests, env, history>>

\* ------------------------------------------------------------------------
\* The generation service (geminiService.ts).  What
\* ai.models.generateContent does is an outcome: the call rejects with a
\* message, or it resolves with a response whose text is undefined or a
\* string.
\* ------------------------------------------------------------------------
Rejected(message) == [k |-> "reject", message |-> message]
Responded(text) == [k |-> "text", text |-> text]

Thrown(message) == [ok |-> FALSE, message |-> message]
Returned(v) == [ok |-> TRUE, v |-> v]

\* String.prototype.trim
Trim(s) ==
  LET keep == {i \in 1..Len(s) : ~IsJsonSpace(s[i])} IN
  IF keep = {} THEN <<>>
  ELSE SubSeq(s, CHOOSE i \in keep : \A j \in keep : i <= j,
                 CHOOSE i \in keep : \A j \in keep : i >= j)

\* the message of the exception thrown inside the service's try block:
\* the rejection's, the TypeError of undefined.trim(), JSON.parse's
\* SyntaxError (V8's wording, without the token and the position it adds
\* for a character that cannot be there)
ServiceError(outcome) ==
  IF outcome.k = "reject" THEN outcome.message
  ELSE IF outcome.text.t # "str" THEN "Cannot read properties of undefined (reading 'trim')"
  ELSE LET met == JSONParse(Trim(outcome.text.s)).met IN
       CASE met = "end" -> "Unexpected end of JSON input"
         [] met = "string" -> "Unterminated string in JSON"
         [] met = "token" -> "Unexpected token in JSON"

\* response.text.trim() parsed by JSON.parse
ParsedResponse(outcome) ==
  IF outcome.k = "text" /\ outcome.text.t = "str"
    THEN JSONParse(Trim(outcome.text.s))
    ELSE Fail

\* variant: the catch block answers with an empty core instead of throwing
generateLanguageCore_Swallow(outcome) ==
  LET r == ParsedResponse(outcome) IN
  IF r.ok THEN Returned(r.v)
  ELSE Returned(Obj(<<Prop(kDescription, Str(sEmpty)), Prop(kGrammar, Grammar(sSVO)),
                      Prop(kVocabulary, Arr(<<>>))>>))

\* generateLanguageCore (lines 42-104)
generateLanguageCore(outcome) ==
  LET r == ParsedResponse(outcome) IN
  IF r.ok THEN Returned(r.v)
  ELSE LET m == ServiceError(outcome) IN
       Thrown(IF m # "" THEN m ELSE "Linguistic engine failure.")

\* extendVocabulary (lines 106-146)
extendVocabulary(outcome) ==
  LET r == ParsedResponse(outcome) IN
  IF r.ok THEN Returned(r.v) ELSE Thrown("Failed to extend vocabulary.")

\* translateText (lines 148-183)
translateText(outcome) ==
  LET r == ParsedResponse(outcome) IN
  IF r.ok THEN Returned(r.v) ELSE Thrown("Translation failed.")

\* askLinguisticAssistant (lines 185-209): response.text as it is
askLinguisticAssistant(outcome) ==
  IF outcome.k = "text" THEN Returned(outcome.text) ELSE Thrown("Assistant unavailable.")

\* suggestPhonemes (lines 21-40)
suggestPhonemes(outcome) ==
  LET r == ParsedResponse(outcome) IN
  IF r.ok THEN Returned(r.v) ELSE Thrown("Phoneme suggestion failed.")

\* expandVibe (lines 7-19)
expandVibe(outcome) ==
  IF outcome.k = "text" /\ outcome.text.t = "str"
    THEN Returned(Str(Trim(outcome.text.s)))
    ELSE Thrown("Failed to expand vibe.")

\* What the service answers, per operation
GeneratedCore ==
  Obj(<<Prop(kDescription, Str(sDesc)), Prop(kGrammar, Grammar(sVSO)),
        Prop(kVocabulary, Arr(<<Word(<<49>>, sPa)>>))>>)

kTranslation == <<116, 114, 97, 110, 115, 108, 97, 116, 105, 111, 110>>
kBreakdown == <<98, 114, 101, 97, 107, 100, 111, 119, 110>>
Translated ==
  Obj(<<Prop(kTranslation, Str(sPa)), Prop(kPronunciation, Str(sPa)),
        Prop(kBreakdown, Str(sM))>>)

\* how a call of the service fails, by class of failure: the API rejects
\* the key, the quota is used up, the model is not available, the response
\* has no text, the response is not the JSON asked for (a sentence, a
\* document cut after "description":)
FailureClasses ==
  [ auth |-> { Rejected("API key not valid.") },
    rate |-> { Rejected("Resource has been exhausted.") },
    unavailable |-> { Rejected("The model is overloaded.") },
    empty |-> { Responded(Str(sEmpty)) },
    malformed |-> { Responded(Str(sSorry)),
                    Responded(Str(Take(JSONStringify(GeneratedCore), 15))) } ]

Failures == UNION {FailureClasses[c] : c \in DOMAIN FailureClasses}

GenerateOutcomes == Failures \cup { Responded(Str(JSONStringify(GeneratedCore))) }
\* a word with a new id, a word with the id of a word already present
ExtendOutcomes ==
  Failures \cup { Responded(Str(JSONStringify(Arr(<<Word(<<50>>, sStressed)>>)))),
                  Responded(Str(JSONStringify(Arr(<<Word(<<49>>, sStressed)>>)))) }
TranslateOutcomes == { Rejected("API key not valid."), Responded(Str(JSONStringify(Translated))) }
AskOutcomes == { Rejected("API key not valid."), Responded(Str(sSorry)) }
\* the schema of the response asks for an array of strings, and the
\* service may name a symbol twice
SuggestOutcomes ==
  { Rejected("API key not valid."),
    Responded(Str(JSONStringify(Arr(<<Str(sP), Str(sChi)>>)))),
    Responded(Str(JSONStringify(Arr(<<Str(sP), Str(sChi), Str(sP)>>)))) }
ExpandOutcomes == { Rejected("API key not valid."), Responded(Str(sVibe \o sVibe)) }

\* what each function of the service that parses a response gives its
\* caller, per outcome of the call
GenerateAnswers == [o \in GenerateOutcomes |-> generateLanguageCore(o)]
ExtendAnswers == [o \in ExtendOutcomes |-> extendVocabulary(o)]
TranslateAnswers == [o \in TranslateOutcomes |-> translateText(o)]
SuggestAnswers == [o \in SuggestOutcomes |-> suggestPhonemes(o)]

\* ------------------------------------------------------------------------
\* Handlers that call the service.  A handler runs up to its await; the
\* rest of it runs when the call settles (the Settle actions).
\* ------------------------------------------------------------------------
InEditor == pc = "run" /\ appState = "EDITOR"
\* the assistant panel and the dictionary are rendered when the record has
\* a description (lines 899, 1035)
LabShown == InEditor /\ Truthy(Get(currentLang, kDescription))
Issue(kind) ==
  /\ pending' = [pending EXCEPT ![kind] = @ + 1]
  /\ UNCHANGED superseded
  /\ Spend
\* the call that settles is any of those awaiting the service
Settled(kind) ==
  /\ pending[kind] > 0
  /\ pending' = [pending EXCEPT ![kind] = @ - 1]
  /\ \E late \in BOOLEAN :
       /\ late => superseded[kind] > 0
       /\ ~late => superseded[kind] < pending[kind]
       /\ superseded' = [superseded EXCEPT ![kind] = IF late THEN @ - 1 ELSE @]

NameMissing == "Please provide a name for your language first."
PhonemesMissing == "Please select at least one IPA symbol to build your phonology."

\* variant: only an absent list counts, as in "if (!currentLang.phonemes)"
NoPhonemes_OnlyAbsent(lang) == ~Truthy(Get(lang, kPhonemes))

NoPhonemes(lang) ==
  \/ ~Truthy(Get(lang, kPhonemes))
  \/ IsArr(Get(lang, kPhonemes)) /\ Len(Get(lang, kPhonemes).a) = 0

\* components/Button: a button whose loading property is set still takes
\* clicks (the triggering control is not disabled while a request of the
\* same kind is outstanding)
ButtonTakesClicks(loading) == TRUE

\* handleGenerate up to the await (lines 1754-1771); the Generate button
\* has loading={isGenerating}
HandleGenerate ==
  /\ InEditor
  /\ ButtonTakesClicks(isGenerating)
  /\ CanAct
  /\ IF ~Truthy(Get(currentLang, kName))
       THEN /\ error' = NameMissing
            /\ Spend
            /\ UNCHANGED <<isGenerating, requests>>
     ELSE IF NoPhonemes(currentLang)
       THEN /\ error' = PhonemesMissing
            /\ Spend
            /\ UNCHANGED <<isGenerating, requests>>
     ELSE /\ error' = NoError
          /\ isGenerating' = TRUE
          /\ Issue("generate")
  /\ UNCHANGED <<pc, browser, appState, savedLangs, currentLang, isExtending,
                 isTranslating, isSuggestingSounds, isExpandingVibe, isAsking,
                 assistant, env, history>>

\* variant: setCurrentLang(result), the record replaced by the response
MergeCore_Replace(prev, result) == result

\* setCurrentLang(prev => ({...prev, description, grammar, vocabulary}))
MergeCore(prev, result) ==
  Set(Set(Set(prev, kDescription, Get(result, kDescription)),
          kGrammar, Get(result, kGrammar)),
      kVocabulary, Get(result, kVocabulary))

\* handleGenerate after the await (lines 1772-1782)
SettleGenerate(outcome) ==
  /\ Settled("generate")
  /\ LET result == GenerateAnswers[outcome] IN
     IF result.ok
       THEN /\ currentLang' = MergeCore(currentLang, result.v)
            /\ UNCHANGED error
       ELSE /\ error' = (IF result.message # "" THEN result.message
                                                ELSE "Linguistic engine error.")
            /\ UNCHANGED currentLang
  /\ isGenerating' = FALSE
  /\ UNCHANGED <<pc, browser, appState, savedLangs, isExtending, isTranslating,
                 isSuggestingSounds, isExpandingVibe, isAsking, assistant,
                 env, used, history>>

\* variant: no extension while a generation is in flight
HandleExtendVocabulary_OneAtATime ==
  /\ LabShown
  /\ ~isExtending
  /\ ~isGenerating
  /\ CanAct
  /\ isExtending' = TRUE
  /\ Issue("extend")
  /\ UNCHANGED <<pc, browser, appState, savedLangs, currentLang, isGenerating,
                 isTranslating, isSuggestingSounds, isExpandingVibe, isAsking,
                 assistant, error, env, history>>

\* variant: without "if (isExtending) return"
HandleExtendVocabulary_Unguarded ==
  /\ LabShown
  /\ CanAct
  /\ isExtending' = TRUE
  /\ Issue("extend")
  /\ UNCHANGED <<pc, browser, appState, savedLangs, currentLang, isGenerating,
                 isTranslating, isSuggestingSounds, isExpandingVibe, isAsking,
                 assistant, error, env, history>>

\* handleExtendVocabulary up to the await (lines 1785-1789)
HandleExtendVocabulary ==
  /\ LabShown
  /\ ~isExtending
  /\ CanAct
  /\ isExtending' = TRUE
  /\ Issue("extend")
  /\ UNCHANGED <<pc, browser, appState, savedLangs, currentLang, isGenerating,
                 isTranslating, isSuggestingSounds, isExpandingVibe, isAsking,
                 assistant, error, env, history>>

\* variant: vocabulary: [...newWords, ...(prev.vocabulary || [])]
AppendWords_InFront(prev, newWords) ==
  Set(prev, kVocabulary,
      Arr(newWords.a \o OrElse(Get(prev, kVocabulary), Arr(<<>>)).a))

\* vocabulary: [...(prev.vocabulary || []), ...newWords]
AppendWords(prev, newWords) ==
  Set(prev, kVocabulary,
      Arr(OrElse(Get(prev, kVocabulary), Arr(<<>>)).a \o newWords.a))

\* handleExtendVocabulary after the await (lines 1790-1798)
SettleExtend(outcome) ==
  /\ Settled("extend")
  /\ LET result == ExtendAnswers[outcome] IN
     IF result.ok
       THEN /\ currentLang' = AppendWords(currentLang, result.v)
            /\ UNCHANGED error
       ELSE /\ error' = "Failed to generate new words."
            /\ UNCHANGED currentLang
  /\ isExtending' = FALSE
  /\ UNCHANGED <<pc, browser, appState, savedLangs, isGenerating, isTranslating,
                 isSuggestingSounds, isExpandingVibe, isAsking, assistant,
                 env, used, history>>

\* handleTranslate up to the await (lines 1801-1805)
HandleTranslate ==
  /\ LabShown
  /\ Trim(translationInput) # <<>>
  /\ ~isTranslating
  /\ CanAct
  /\ isTranslating' = TRUE
  /\ Issue("translate")
  /\ UNCHANGED <<pc, browser, appState, savedLangs, currentLang, isGenerating,
                 isExtending, isSuggestingSounds, isExpandingVibe, isAsking,
                 assistant, error, env, history>>

\* variant: the word the translation derived is added to the dictionary
SettleTranslate_AddsWord(outcome) ==
  /\ Settled("translate")
  /\ LET result == TranslateAnswers[outcome] IN
     IF result.ok
       THEN /\ translationResult' = result.v
            /\ currentLang' = AppendWords(currentLang,
                 Arr(<<Word(<<57>>, Get(result.v, kTranslation).s)>>))
            /\ UNCHANGED error
       ELSE /\ error' = "Translation engine failure."
            /\ UNCHANGED <<translationResult, currentLang>>
  /\ isTranslating' = FALSE
  /\ UNCHANGED <<pc, browser, appState, savedLangs, isGenerating,
                 isExtending, isSuggestingSounds, isExpandingVibe, isAsking,
                 translationInput, assistantQuery, assistantChat, env, used,
                 history>>

\* handleTranslate after the await (lines 1806-1811)
SettleTranslate(outcome) ==
  /\ Settled("translate")
  /\ LET result == TranslateAnswers[outcome] IN
     IF result.ok
       THEN /\ translationResult' = result.v
            /\ UNCHANGED error
       ELSE /\ error' = "Translation engine failure."
            /\ UNCHANGED translationResult
  /\ isTranslating' = FALSE
  /\ UNCHANGED <<pc, browser, appState, savedLangs, currentLang, isGenerating,
                 isExtending, isSuggestingSounds, isExpandingVibe, isAsking,
                 translationInput, assistantQuery, assistantChat, env, used,
                 history>>

ChatEntry(role, text) == [role |-> role, text |-> text]

\* handleAskAssistant up to the await (lines 1814-1824)
HandleAskAssistant ==
  /\ LabShown
  /\ Trim(assistantQuery) # <<>>
  /\ ~isAsking
  /\ CanAct
  /\ assistantQuery' = sEmpty
  /\ assistantChat' = Append(assistantChat, ChatEntry("user", Str(assistantQuery)))
  /\ isAsking' = TRUE
  /\ Issue("ask")
  /\ UNCHANGED <<pc, browser, appState, savedLangs, currentLang, isGenerating,
                 isExtending, isTranslating, isSuggestingSounds,
                 isExpandingVibe, translationInput, translationResult, error,
                 env, history>>

\* handleAskAssistant after the await (lines 1825-1830)
SettleAsk(outcome) ==
  /\ Settled("ask")
  /\ LET result == askLinguisticAssistant(outcome) IN
     IF result.ok
       THEN /\ assistantChat' = Append(assistantChat, ChatEntry("assistant", result.v))
            /\ UNCHANGED error
       ELSE /\ error' = "Assistant connection failed."
            /\ UNCHANGED assistantChat
  /\ isAsking' = FALSE
  /\ UNCHANGED <<pc, browser, appState, savedLangs, currentLang, isGenerating,
                 isExtending, isTranslating, isSuggestingSounds,
                 isExpandingVibe, translationInput, translationResult,
                 assistantQuery, env, used, history>>

\* handleSuggestSounds up to the await (lines 1725-1732)
HandleSuggestSounds ==
  /\ InEditor
  /\ CanAct
  /\ IF ~Truthy(Get(currentLang, kVibe))
       THEN /\ error' = "Please provide a vibe first so I know what sounds to suggest."
            /\ Spend
            /\ UNCHANGED <<isSuggestingSounds, requests>>
       ELSE /\ isSuggestingSounds' = TRUE
            /\ Issue("suggest")
            /\ UNCHANGED error
  /\ UNCHANGED <<pc, browser, appState, savedLangs, currentLang, isGenerating,
                 isExtending, isTranslating, isExpandingVibe, isAsking,
                 assistant, env, history>>

\* variant: setIsSuggestingSounds(false) at the end of the try block, no
\* finally
SettleSuggest_NoFinally(outcome) ==
  /\ Settled("suggest")
  /\ LET result == SuggestAnswers[outcome] IN
     IF result.ok
       THEN /\ currentLang' = Set(currentLang, kPhonemes, result.v)
            /\ isSuggestingSounds' = FALSE
            /\ UNCHANGED error
       ELSE /\ error' = "Sound suggestion failed."
            /\ UNCHANGED <<currentLang, isSuggestingSounds>>
  /\ UNCHANGED <<pc, browser, appState, savedLangs, isGenerating, isExtending,
                 isTranslating, isExpandingVibe, isAsking, assistant, env,
                 used, history>>

\* handleSuggestSounds after the await (lines 1733-1738)
SettleSuggest(outcome) ==
  /\ Settled("suggest")
  /\ LET result == SuggestAnswers[outcome] IN
     IF result.ok
       THEN /\ currentLang' = Set(currentLang, kPhonemes, result.v)
            /\ UNCHANGED error
       ELSE /\ error' = "Sound suggestion failed."
            /\ UNCHANGED currentLang
  /\ isSuggestingSounds' = FALSE
  /\ UNCHANGED <<pc, browser, appState, savedLangs, isGenerating, isExtending,
                 isTranslating, isExpandingVibe, isAsking, assistant, env,
                 used, history>>

\* handleExpandVibe up to the await (lines 1741-1745)
HandleExpandVibe ==
  /\ InEditor
  /\ Truthy(Get(currentLang, kVibe))
  /\ CanAct
  /\ isExpandingVibe' = TRUE
  /\ Issue("expand")
  /\ UNCHANGED <<pc, browser, appState, savedLangs, currentLang, isGenerating,
                 isExtending, isTranslating, isSuggestingSounds, isAsking,
                 assistant, error, env, history>>

\* handleExpandVibe after the await (lines 1746-1751)
SettleExpand(outcome) ==
  /\ Settled("expand")
  /\ LET result == expandVibe(outcome) IN
     IF result.ok
       THEN /\ currentLang' = Set(currentLang, kVibe, result.v)
            /\ UNCHANGED error
       ELSE /\ error' = "Vibe expansion failed."
            /\ UNCHANGED currentLang
  /\ isExpandingVibe' = FALSE
  /\ UNCHANGED <<pc, browser, appState, savedLangs, isGenerating, isExtending,
                 isTranslating, isSuggestingSounds, isAsking, assistant, env,
                 used, history>>

\* ------------------------------------------------------------------------
\* Persistence and sharing
\* ------------------------------------------------------------------------
\* saveToLocalStorage (lines 1701-1703)
saveToLocalStorage_Stale(langs) == localStorage' = Str(JSONStringify(savedLangs))

saveToLocalStorage(langs) == localStorage' = Str(JSONStringify(Arr(langs)))

\* Save and Share are rendered when the vocabulary is not empty (line 884)
HasWords(lang) ==
  IsArr(Get(lang, kVocabulary)) /\ Len(Get(lang, kVocabulary).a) > 0

\* variant: createdAt: Date.now() on every save
NewLang_Restamp(lang, freshId, time) ==
  Set(Set(lang, kId, OrElse(Get(lang, kId), Str(freshId))), kCreatedAt, Num(time))

\* { ...currentLang, id: currentLang.id || random, createdAt: ... || now }
NewLang(lang, freshId, time) ==
  Set(Set(lang, kId, OrElse(Get(lang, kId), Str(freshId))),
      kCreatedAt, OrElse(Get(lang, kCreatedAt), Num(time)))

\* variant: [newLang, ...savedLangs] whether the record has an id or not
SaveInto_AlwaysInFront(langs, lang, newLang) == <<newLang>> \o langs

\* variant: a record without an id is stored as [newLang]
SaveInto_OnlyNew(langs, lang, newLang) ==
  IF Truthy(Get(lang, kId))
    THEN [i \in 1..Len(langs) |->
            IF Get(langs[i], kId) = Get(newLang, kId) THEN newLang ELSE langs[i]]
    ELSE <<newLang>>

\* currentLang.id ? savedLangs.map(l => l.id === newLang.id ? newLang : l)
\*                : [newLang, ...savedLangs]
SaveInto(langs, lang, newLang) ==
  IF Truthy(Get(lang, kId))
    THEN [i \in 1..Len(langs) |->
            IF Get(langs[i], kId) = Get(newLang, kId) THEN newLang ELSE langs[i]]
    ELSE <<newLang>> \o langs

\* handleSaveLang (lines 1833-1846)
HandleSaveLang ==
  /\ InEditor
  /\ HasWords(currentLang)
  /\ CanAct
  /\ nextId < Len(FreshIds)
  /\ LET newLang == NewLang(currentLang, FreshIds[nextId + 1], now)
         updated == SaveInto(savedLangs.a, currentLang, newLang)
     IN /\ savedLangs' = Arr(updated)
        /\ saveToLocalStorage(updated)
  /\ appState' = "SAVED"
  /\ nextId' = IF Truthy(Get(currentLang, kId)) THEN nextId ELSE nextId + 1
  /\ now' = IF Truthy(Get(currentLang, kCreatedAt)) THEN now ELSE now + 1
  /\ Spend
  /\ saves' = saves + 1
  /\ UNCHANGED <<pc, search, clipboard, reading, exports, currentLang, flags,
                 assistant, error, requests, sharedLang, picked>>

\* variant: filter(l => l.id === id)
WithoutId_Inverted(langs, id) == SelectSeq(langs, LAMBDA l : Get(l, kId) = id)

\* savedLangs.filter(l => l.id !== id)
WithoutId(langs, id) == SelectSeq(langs, LAMBDA l : Get(l, kId) # id)

\* handleDelete (lines 1848-1852), from a library card (line 1929)
HandleDelete(i) ==
  /\ pc = "run"
  /\ appState = "SAVED"
  /\ i \in 1..Len(savedLangs.a)
  /\ CanAct
  /\ LET updated == WithoutId(savedLangs.a, Get(savedLangs.a[i], kId)) IN
     /\ savedLangs' = Arr(updated)
     /\ saveToLocalStorage(updated)
  /\ Spend
  /\ UNCHANGED <<pc, search, clipboard, reading, exports, appState,
                 currentLang, flags, assistant, error, requests, env, history>>

\* variant: the file is written in a charset that has ASCII only
ExportedFile_Ascii(lang) ==
  LET json == JSONStringify(lang) IN
  [ok |-> TRUE,
   v |-> [i \in 1..Len(json) |-> IF json[i] < 128 THEN json[i] ELSE cQuestion]]

\* the bytes of the file that the link to
\* "data:text/json;charset=utf-8," + encodeURIComponent(JSON.stringify(lang))
\* downloads
ExportedFile(lang) ==
  LET payload == EncodeURIComponent(JSONStringify(lang)) IN
  IF payload.ok THEN [ok |-> TRUE, v |-> PercentDecode(payload.v)] ELSE Fail

\* handleExportJson (lines 127-136), from the Export button beside Save
\* (line 311)
HandleExportJson ==
  /\ InEditor
  /\ HasWords(currentLang)
  /\ CanAct
  /\ LET file == ExportedFile(currentLang) IN
     IF Truthy(Get(currentLang, kName)) /\ file.ok
       THEN exports' = exports \cup {[file |-> file.v, lang |-> currentLang]}
       ELSE UNCHANGED exports
  /\ Spend
  /\ UNCHANGED <<pc, search, localStorage, clipboard, reading, react, requests,
                 env, history>>

\* handleImportJson up to reader.readAsText (lines 1854-1857, 1868); the
\* file input is on the home view (line 1901)
HandleImportJson(file) ==
  /\ pc = "run"
  /\ appState = "HOME"
  /\ reading = Null
  /\ CanAct
  /\ reading' = Str(ReadAsText(file))
  /\ picked' = file
  /\ Spend
  /\ UNCHANGED <<pc, search, localStorage, clipboard, exports, react, requests,
                 env, sharedLang, saves>>

\* the file input is given a file of the downloads folder
PickDownload == \E e \in exports : HandleImportJson(e.file)

\* variant: the view is switched before the text is parsed
ReaderOnload_SwitchFirst ==
  /\ pc = "run"
  /\ reading # Null
  /\ reading' = Null
  /\ appState' = "EDITOR"
  /\ LET json == JSONParse(reading.s) IN
     IF json.ok
       THEN /\ currentLang' = json.v
            /\ error' = NoError
            /\ superseded' = pending
       ELSE /\ error' = "Invalid JSON file formatting."
            /\ UNCHANGED <<currentLang, superseded>>
  /\ UNCHANGED <<pc, search, localStorage, clipboard, exports, savedLangs,
                 flags, assistant, pending, env, used, history>>

\* reader.onload (lines 1858-1867)
ReaderOnload ==
  /\ pc = "run"
  /\ reading # Null
  /\ reading' = Null
  /\ LET json == JSONParse(reading.s) IN
     IF json.ok
       THEN /\ currentLang' = json.v
            /\ appState' = "EDITOR"
            /\ error' = NoError
            /\ superseded' = pending
       ELSE /\ error' = "Invalid JSON file formatting."
            /\ UNCHANGED <<currentLang, appState, superseded>>
  /\ UNCHANGED <<pc, search, localStorage, clipboard, exports, savedLangs,
                 flags, assistant, pending, env, used, history>>

\* handleShare (lines 1871-1883)
HandleShare ==
  /\ InEditor
  /\ HasWords(currentLang)
  /\ CanAct
  /\ LET base64 == ShareToken(currentLang) IN
     IF base64.ok
       THEN /\ clipboard' = ShareSearch(base64.v)
            /\ sharedLang' = currentLang
            /\ UNCHANGED error
       ELSE /\ error' = "Failed to generate a shareable link."
            /\ UNCHANGED <<clipboard, sharedLang>>
  /\ Spend
  /\ UNCHANGED <<pc, search, localStorage, reading, exports, appState,
                 savedLangs, currentLang, flags, assistant, requests, env, saves,
                 picked>>

\* the link on the clipboard is opened: a new page, constructed as in
\* lines 1638-1668, whose requests and file reads are those of no earlier
\* page
FollowShareLink ==
  /\ pc = "run"
  /\ clipboard # <<>>
  /\ CanAct
  /\ pc' = "boot"
  /\ search' = clipboard
  /\ reading' = Null
  /\ appState' = "HOME"
  /\ savedLangs' = Arr(<<>>)
  /\ currentLang' = EmptyLang
  /\ isGenerating' = FALSE
  /\ isExtending' = FALSE
  /\ isTranslating' = FALSE
  /\ isSuggestingSounds' = FALSE
  /\ isExpandingVibe' = FALSE
  /\ isAsking' = FALSE
  /\ translationInput' = sEmpty
  /\ translationResult' = Null
  /\ assistantQuery' = sEmpty
  /\ assistantChat' = <<>>
  /\ error' = NoError
  /\ pending' = NoPending
  /\ superseded' = NoPending
  /\ Spend
  /\ UNCHANGED <<localStorage, clipboard, exports, env, history>>

Next ==
  \/ Startup
  \/ \E target \in AppStates : Navigate(target)
  \/ HandleStartNew
  \/ \E i \in Cards : OpenSaved(i)
  \/ DismissError
  \/ \E n \in Names : SetName(n)
  \/ \E v \in Vibes : SetVibe(v)
  \/ \E symbol \in Symbols : PickSymbol(symbol)
  \/ \E text \in Inputs : SetTranslationInput(text)
  \/ \E text \in Inputs : SetAssistantQuery(text)
  \/ HandleGenerate
  \/ \E outcome \in GenerateOutcomes : SettleGenerate(outcome)
  \/ HandleExtendVocabulary
  \/ \E outcome \in ExtendOutcomes : SettleExtend(outcome)
  \/ HandleTranslate
  \/ \E outcome \in TranslateOutcomes : SettleTranslate(outcome)
  \/ HandleAskAssistant
  \/ \E outcome \in AskOutcomes : SettleAsk(outcome)
  \/ HandleSuggestSounds
  \/ \E outcome \in SuggestOutcomes : SettleSuggest(outcome)
  \/ HandleExpandVibe
  \/ \E outcome \in ExpandOutcomes : SettleExpand(outcome)
  \/ HandleSaveLang
  \/ \E i \in Cards : HandleDelete(i)
  \/ HandleExportJson
  \/ \E file \in Files : HandleImportJson(file)
  \/ PickDownload
  \/ ReaderOnload
  \/ HandleShare
  \/ FollowShareLink

Spec == Init /\ [][Next]_vars

\* every call of the service resolves or rejects: a call that is awaiting
\* the service does not await it forever
LiveSpec ==
  /\ Init
  /\ [][Next]_vars
  /\ WF_vars(\E outcome \in GenerateOutcomes : SettleGenerate(outcome))
  /\ WF_vars(\E outcome \in ExtendOutcomes : SettleExtend(outcome))
  /\ WF_vars(\E outcome \in TranslateOutcomes : SettleTranslate(outcome))
  /\ WF_vars(\E outcome \in AskOutcomes : SettleAsk(outcome))
  /\ WF_vars(\E outcome \in SuggestOutcomes : SettleSuggest(outcome))
  /\ WF_vars(\E outcome \in ExpandOutcomes : SettleExpand(outcome))

\* ------------------------------------------------------------------------
\* Properties
\* ------------------------------------------------------------------------
NameEmpty(lang) == Get(lang, kName) = Undef \/ Get(lang, kName) = Str(sEmpty)
PhonemesEmpty(lang) ==
  Get(lang, kPhonemes) = Undef \/ Get(lang, kPhonemes) = Arr(<<>>)
\* the fields a Conlang has besides id and createdAt
ContentKeys == {kName, kDescription, kPhonemes, kVibe, kVocabulary, kGrammar}
SameContent(a, b) == \A key \in ContentKeys : Get(a, key) = Get(b, key)
IdsOf(langs) == [i \in 1..Len(langs) |-> Get(langs[i], kId)]
InLibrary(lang) == \E i \in 1..Len(savedLangs.a) : savedLangs.a[i] = lang

\* C1: while the current record's name is empty or its phoneme list is
\* empty or absent, no step starts a generateCore request, and
\* handleGenerate sets one of the two inline errors and raises no loading
\* flag.
C1_GenerateValidated ==
  [][ (NameEmpty(currentLang) \/ PhonemesEmpty(currentLang)) =>
        /\ pending'["generate"] <= pending["generate"]
        /\ HandleGenerate =>
             /\ error' \in {NameMissing, PhonemesMissing}
             /\ flags' = flags ]_vars

\* C1 witness: handleGenerate has refused a named record whose phoneme
\* list is empty
C1_Witness ==
  /\ appState = "EDITOR"
  /\ ~NameEmpty(currentLang)
  /\ PhonemesEmpty(currentLang)
  /\ error = PhonemesMissing
  /\ pending["generate"] = 0
  /\ ~isGenerating

\* C2: when a generateCore request fails (rejected call, empty response,
\* response that is not JSON) the error notification is set and the
\* current record's description, grammar and vocabulary are what they were.
C2_FailedGenerateKeepsContent ==
  [][ \A outcome \in Failures :
        SettleGenerate(outcome) =>
          /\ error' # NoError
          /\ Get(currentLang', kDescription) = Get(currentLang, kDescription)
          /\ Get(currentLang', kGrammar) = Get(currentLang, kGrammar)
          /\ Get(currentLang', kVocabulary) = Get(currentLang, kVocabulary) ]_vars

\* C2 witness: a response that is not JSON was reported and the record
\* opened from the library still has its generated content
C2_Witness ==
  /\ error = "Unexpected token in JSON"
  /\ currentLang = LangA
  /\ ~isGenerating
  /\ pending["generate"] = 0

\* C3: after handleSaveLang the saved collection holds exactly one record
\* with the current record's id (the id just assigned when it had none)
\* and that record has the current record's fields.
C3_SaveInsertsOrReplaces ==
  [][ HandleSaveLang =>
        \E i \in 1..Len(savedLangs'.a) :
          /\ SameContent(savedLangs'.a[i], currentLang)
          /\ Truthy(Get(savedLangs'.a[i], kId))
          /\ Truthy(Get(currentLang, kId)) =>
               Get(savedLangs'.a[i], kId) = Get(currentLang, kId)
          /\ \A j \in 1..Len(savedLangs'.a) :
               j # i => Get(savedLangs'.a[j], kId) # Get(savedLangs'.a[i], kId) ]_vars

UniqueWordIds(lang) ==
  LET words == Get(lang, kVocabulary).a IN
  \A i, j \in 1..Len(words) : i # j => Get(words[i], kId) # Get(words[j], kId)

\* C4: after a vocabulary extension settles, no two words of the current
\* record's vocabulary share an id, whatever ids the service returned.
C4_ExtensionKeepsIdsUnique ==
  [][ (\E outcome \in ExtendOutcomes : SettleExtend(outcome)) =>
        UniqueWordIds(currentLang') ]_vars

\* C5: the page opened from the link handleShare wrote installs a record
\* equal to the record that was shared.
C5_ShareRoundTrip ==
  [][ (clipboard # <<>> /\ search = clipboard /\ Startup) =>
        currentLang' = sharedLang ]_vars

\* C6: when the share parameter does not decode, the page stays on HOME
\* with the empty record and the error notification is set.
C6_BadShareReported ==
  [][ ( /\ Truthy(SearchParamsGetShare(search))
        /\ ~DecodeShare(SearchParamsGetShare(search).s).ok
        /\ Startup ) =>
        /\ appState' = "HOME"
        /\ currentLang' = EmptyLang
        /\ error' # NoError ]_vars

\* C7: when the file read by handleImportJson is not JSON, the error
\* notification is set and the current record, the view and the saved
\* collection are unchanged.
C7_BadImportRejected ==
  [][ (reading # Null /\ ~JSONParse(reading.s).ok /\ ReaderOnload) =>
        /\ error' # NoError
        /\ currentLang' = currentLang
        /\ appState' = appState
        /\ savedLangs' = savedLangs ]_vars

\* C7 witness: a file cut short was refused on the home view
C7_Witness ==
  /\ error = "Invalid JSON file formatting."
  /\ reading = Null
  /\ appState = "HOME"
  /\ currentLang = EmptyLang

\* C8: saving a record that equals a record of the library leaves the
\* saved collection as it was (size, order, every record), in memory and
\* in storage, however often it is saved.
C8_ResaveUnmodified ==
  [][ (InLibrary(currentLang) /\ HandleSaveLang) =>
        /\ savedLangs' = savedLangs
        /\ JSONParse(localStorage'.s) = [ok |-> TRUE, v |-> savedLangs] ]_vars

\* C8 witness: a library record was saved twice without a change
C8_Witness ==
  /\ saves = 2
  /\ currentLang = LangA
  /\ savedLangs = Arr(<<LangB, LangA>>)
  /\ appState = "SAVED"

\* the records of langs whose id is not id, in their order
Remaining(langs, id) ==
  LET keep == {j \in 1..Len(langs) : Get(langs[j], kId) # id}
      nth(k) == CHOOSE j \in keep : Cardinality({m \in keep : m <= j}) = k
  IN [k \in 1..Cardinality(keep) |-> langs[nth(k)]]

\* C9: handleDelete(id) leaves exactly the records whose id is not id,
\* unchanged and in their order, in memory and in storage.
C9_DeleteRemovesThatId ==
  [][ \A i \in Cards :
        HandleDelete(i) =>
          /\ savedLangs'.a = Remaining(savedLangs.a, Get(savedLangs.a[i], kId))
          /\ JSONParse(localStorage'.s) = [ok |-> TRUE, v |-> savedLangs'] ]_vars

\* C9 witness: of the two saved records, "a" was deleted and "b" remains
C9_Witness ==
  /\ savedLangs = Arr(<<LangB>>)
  /\ localStorage = Str(JSONStringify(Arr(<<LangB>>)))
  /\ appState = "SAVED"

\* steps that work on the current record without installing another one
WorksOnRecord ==
  \/ \E n \in Names : SetName(n)
  \/ \E v \in Vibes : SetVibe(v)
  \/ \E symbol \in Symbols : PickSymbol(symbol)
  \/ \E outcome \in GenerateOutcomes : SettleGenerate(outcome)
  \/ \E outcome \in ExtendOutcomes : SettleExtend(outcome)
  \/ \E outcome \in SuggestOutcomes : SettleSuggest(outcome)
  \/ \E outcome \in ExpandOutcomes : SettleExpand(outcome)
  \/ HandleSaveLang

\* C10: a record's id never changes: editing, regenerating and extending
\* keep the current record's id; saving a record that has an id leaves
\* the ids of the collection as they are and stores the record under its
\* id; saving a record without an id puts it first under an id no saved
\* record has.
C10_IdAssignedOnce ==
  [][ /\ WorksOnRecord => Get(currentLang', kId) = Get(currentLang, kId)
      /\ HandleSaveLang =>
           IF Truthy(Get(currentLang, kId))
             THEN /\ IdsOf(savedLangs'.a) = IdsOf(savedLangs.a)
                  /\ \A i \in 1..Len(savedLangs.a) :
                       Get(savedLangs.a[i], kId) = Get(currentLang, kId) =>
                         SameContent(savedLangs'.a[i], currentLang)
             ELSE /\ Tail(IdsOf(savedLangs'.a)) = IdsOf(savedLangs.a)
                  /\ Truthy(Head(IdsOf(savedLangs'.a)))
                  /\ \A i \in 1..Len(savedLangs.a) :
                       Get(savedLangs.a[i], kId) # Head(IdsOf(savedLangs'.a)) ]_vars

\* C10 witness: record "a" was regenerated or edited and saved again under
\* the id "a", beside a record first saved under a fresh id or alone
C10_Witness ==
  /\ saves > 0
  /\ appState = "SAVED"
  /\ \E i \in 1..Len(savedLangs.a) :
       /\ Get(savedLangs.a[i], kId) = Str(<<97>>)
       /\ savedLangs.a[i] # LangA
       /\ savedLangs.a[i] = currentLang

\* C11: reading back a file that handleExportJson wrote installs, as the
\* current record, a record equal to the one exported (every field, the
\* non-ASCII symbols included), opens the editor and reports no error.
C11_FileRoundTrip ==
  [][ \A e \in exports :
        (picked = e.file /\ ReaderOnload) =>
          /\ currentLang' = e.lang
          /\ appState' = "EDITOR"
          /\ error' = NoError ]_vars

\* C11 witness: the export of record "a", whose phoneme is U+03C7, was
\* read back from the home view
C11_Witness ==
  /\ \E e \in exports :
       /\ picked = e.file
       /\ e.lang = LangA
       /\ currentLang = e.lang
  /\ reading = Null
  /\ appState = "EDITOR"

\* C12: the view is always one of HOME, EDITOR and SAVED; a page opened
\* without a share parameter shows HOME before and after the mount effect;
\* and on a running page a single user action leads from the view shown to
\* each of the other two (the logo, the Library button, New Project), so
\* that no view is terminal.
C12_ThreeViewsFreelyNavigable ==
  /\ [](/\ appState \in AppStates
        /\ pc = "boot" => appState = "HOME"
        /\ pc = "run" =>
             /\ appState # "HOME" => ENABLED (Navigate("HOME") /\ appState' = "HOME")
             /\ appState # "SAVED" => ENABLED (Navigate("SAVED") /\ appState' = "SAVED")
             /\ appState # "EDITOR" => ENABLED (HandleStartNew /\ appState' = "EDITOR"))
  /\ [][ (Startup /\ SearchParamsGetShare(search) = Null) => appState' = "HOME" ]_vars

\* C12 witness: a page opened on HOME without a share parameter went to
\* the editor, where a name was typed, and from there to the library
C12_Witness ==
  /\ pc = "run"
  /\ appState = "SAVED"
  /\ localStorage = Null
  /\ search = <<>>
  /\ currentLang = Set(EmptyLang, kName, Str(sT))

\* the records whose share link the page can be opened with: the one of
\* the first page and the one handleShare last made a link of
SharedRecords == {LangU} \cup (IF sharedLang = Null THEN {} ELSE {sharedLang})

\* C13: when the page is opened with the share link of a record, the
\* mount effect shows the editor with that record as the current record,
\* and the saved collection is what the storage item holds (empty when
\* there is none or it does not parse); the storage item is not written.
C13_ShareLinkOpensEditor ==
  [][ \A r \in SharedRecords :
        (search = ShareSearch(ShareToken(r).v) /\ Startup) =>
          /\ appState' = "EDITOR"
          /\ currentLang' = r
          /\ LET parsed == IF localStorage = Null THEN Fail
                           ELSE JSONParse(localStorage.s)
             IN savedLangs' = IF parsed.ok THEN parsed.v ELSE Arr(<<>>)
          /\ localStorage' = localStorage ]_vars

\* the loading flag of each kind of request
FlagOf ==
  [k \in Kinds |->
     CASE k = "generate" -> isGenerating
       [] k = "extend" -> isExtending
       [] k = "translate" -> isTranslating
       [] k = "ask" -> isAsking
       [] k = "suggest" -> isSuggestingSounds
       [] k = "expand" -> isExpandingVibe]

\* the step leaves the loading flag of every kind but own as it is
KeptBut(own) == \A k \in Kinds \ {own} : FlagOf'[k] = FlagOf[k]

\* the handler's step exists and sends one request of the kind
Starts(handler, kind) == handler /\ pending'[kind] = pending[kind] + 1

KeptByGenerate == {kName, kPhonemes, kVibe, kId, kCreatedAt}

\* C15: when a generateCore request settles with a response that parses,
\* the current record's description, grammar and vocabulary are the
\* response's, and its phonemes, name, vibe, id and createdAt are what they
\* were.
C15_GenerateFrame ==
  [][ \A o \in GenerateOutcomes :
        (SettleGenerate(o) /\ generateLanguageCore(o).ok) =>
          LET result == JSONParse(Trim(o.text.s)).v IN
          /\ Get(currentLang', kDescription) = Get(result, kDescription)
          /\ Get(currentLang', kGrammar) = Get(result, kGrammar)
          /\ Get(currentLang', kVocabulary) = Get(result, kVocabulary)
          /\ \A key \in KeptByGenerate :
               Get(currentLang', key) = Get(currentLang, key) ]_vars

\* C15 witness: record "b" was generated again: it has the vocabulary of
\* the response and still its phonemes, vibe, id and createdAt
C15_Witness ==
  /\ currentLang = Set(LangB, kVocabulary, Get(GeneratedCore, kVocabulary))
  /\ currentLang # LangB
  /\ ~isGenerating
  /\ pending["generate"] = 0

\* the steps of handleTranslate and of handleAskAssistant
TranslateStep == HandleTranslate \/ \E o \in TranslateOutcomes : SettleTranslate(o)
AskStep == HandleAskAssistant \/ \E o \in AskOutcomes : SettleAsk(o)

\* what no step of the two handlers writes: the record, the library and
\* its storage item, the view, the translation input and the flags of the
\* other four kinds
AdvisoryFrame ==
  UNCHANGED <<currentLang, savedLangs, localStorage, appState, translationInput,
              isGenerating, isExtending, isSuggestingSounds, isExpandingVibe>>

\* C16 as stated: handleTranslate and handleAskAssistant, on success or on
\* failure, change no field of the current record and not the saved
\* collection; they change only the chat transcript, the translation
\* result, their own loading flag and the error notification.
C16_AdvisoryOnly ==
  [][ /\ TranslateStep =>
           /\ AdvisoryFrame
           /\ UNCHANGED <<assistantQuery, assistantChat, isAsking>>
      /\ AskStep =>
           /\ AdvisoryFrame
           /\ UNCHANGED <<assistantQuery, translationResult, isTranslating>> ]_vars

\* C16 as amended: as stated, except that handleAskAssistant also empties
\* the assistant's query input when it sends the query.
C16_AdvisoryOnlyButQueryInput ==
  [][ /\ TranslateStep =>
           /\ AdvisoryFrame
           /\ UNCHANGED <<assistantQuery, assistantChat, isAsking>>
      /\ AskStep =>
           /\ AdvisoryFrame
           /\ UNCHANGED <<translationResult, isTranslating>>
           /\ assistantQuery' = assistantQuery
                \/ (HandleAskAssistant /\ assistantQuery' = sEmpty) ]_vars

\* C16 witness: a question was sent, which emptied the query input, and
\* answered, and the record of the share link is as it was
C16_Witness ==
  /\ currentLang = LangU
  /\ ~isAsking
  /\ Len(assistantChat) = 2
  /\ assistantChat[2].role = "assistant"
  /\ assistantQuery = sEmpty

\* messages that name no class of failure
GenericMessages == {"Linguistic engine failure.", "Linguistic engine error."}

\* C17: a failed generation is reported with a message of its class of
\* failure: the message handleGenerate shows is not the message that
\* generateLanguageCore throws for a failure of another class, and it is
\* not a generic one.
C17_FailureClassesDistinct ==
  [][ \A c1, c2 \in DOMAIN FailureClasses :
        \A o1 \in FailureClasses[c1], o2 \in FailureClasses[c2] :
          (c1 # c2 /\ SettleGenerate(o1)) =>
            /\ error' # generateLanguageCore(o2).message
            /\ error' \notin GenericMessages ]_vars

\* the records of the storage item, none when it is absent or not JSON
Stored ==
  LET parsed == IF localStorage = Null THEN Fail ELSE JSONParse(localStorage.s) IN
  IF parsed.ok /\ IsArr(parsed.v) THEN parsed.v.a ELSE <<>>

\* the saved collection: the one in memory, and on a page whose mount
\* effect has not run yet the one it is about to load
Library == IF pc = "run" THEN savedLangs.a ELSE Stored

\* the saved collection after the step; a step that opens a page leaves
\* the storage item as it is
LibraryAfter == IF pc' = "run" THEN savedLangs'.a ELSE Stored

IdSet(langs) == {Get(langs[i], kId) : i \in 1..Len(langs)}

\* C18: a step that is not handleDelete (navigation, New Project, the
\* steps of the service calls, import, opening a share link, a save of any
\* record) keeps every id of the saved collection in it and does not make
\* the collection shorter; handleDelete takes out no id but the one it
\* was called with.
C18_OnlyDeleteRemoves ==
  [][ /\ pc' = "boot" => localStorage' = localStorage
      /\ (\A i \in Cards : ~HandleDelete(i)) =>
           /\ IdSet(Library) \subseteq IdSet(LibraryAfter)
           /\ Len(LibraryAfter) >= Len(Library)
      /\ \A i \in Cards :
           HandleDelete(i) =>
             IdSet(Library) \ IdSet(LibraryAfter) \subseteq {Get(savedLangs.a[i], kId)} ]_vars

\* C18 witness: the record of the share link was saved, in front of the
\* two records that were saved before
C18_Witness ==
  /\ Len(savedLangs.a) = 3
  /\ SameContent(savedLangs.a[1], LangU)
  /\ savedLangs.a[2] = LangB
  /\ savedLangs.a[3] = LangA
  /\ appState = "SAVED"

\* ------------------------------------------------------------------------
\* a step that changes the saved collection
Mutation == HandleSaveLang \/ \E i \in Cards : HandleDelete(i)

\* the storage item holds JSON text that parses to exactly this array
HoldsExactly(item, langs) ==
  /\ item # Null
  /\ JSONParse(item.s) = [ok |-> TRUE, v |-> langs]

\* C19: the storage item mirrors the saved collection in memory: the
\* mount effect leaves the item as it is and makes the collection what the
\* item gives when read; every handleSaveLang and handleDelete leaves the
\* item holding JSON text that parses to exactly the collection now in
\* memory, the same records in the same order; and no other step of a
\* running page changes the item or the collection.
C19_StorageMirrorsMemory ==
  [][ /\ Startup => (localStorage' = localStorage /\ savedLangs'.a = Stored)
      /\ Mutation => HoldsExactly(localStorage', savedLangs')
      /\ (pc = "run" /\ pc' = "run" /\ ~Mutation) =>
           UNCHANGED <<localStorage, savedLangs>> ]_vars

\* C19 witness: the shared record has been saved in front of the two stored
\* ones and the second card deleted, and the item holds the two that remain
C19_Witness ==
  /\ pc = "run" /\ saves = 1
  /\ Len(savedLangs.a) = 2
  /\ SameContent(savedLangs.a[1], LangU)
  /\ savedLangs.a[2] = LangA
  /\ HoldsExactly(localStorage, savedLangs)

\* ------------------------------------------------------------------------
\* no element of the sequence occurs in it twice
Deduplicated(seq) == \A i, j \in 1..Len(seq) : seq[i] = seq[j] => i = j

\* C20: in every reachable state, whatever symbols were toggled, sounds
\* suggested, files imported and share links opened, no symbol occurs
\* twice in the phonemes of the current record.
C20_PhonemesDeduplicated ==
  LET phonemes == Get(currentLang, kPhonemes) IN
  IsArr(phonemes) => Deduplicated(phonemes.a)

\* ------------------------------------------------------------------------
\* the words of a record, none when it has no vocabulary
WordsOf(lang) == OrElse(Get(lang, kVocabulary), Arr(<<>>)).a

\* C21: when an extension call settles with words, the vocabulary becomes
\* the vocabulary the record has at that time followed by the returned
\* words in the order returned, every entry that was there unchanged and
\* at its place; when it settles with a failure the vocabulary stays as
\* it is.
C21_ExtensionAppends ==
  [][ \A o \in ExtendOutcomes :
        SettleExtend(o) =>
          LET result == extendVocabulary(o) IN
          IF result.ok
            THEN /\ WordsOf(currentLang') = WordsOf(currentLang) \o result.v.a
                 /\ \A i \in 1..Len(WordsOf(currentLang)) :
                      WordsOf(currentLang')[i] = WordsOf(currentLang)[i]
            ELSE Get(currentLang', kVocabulary) = Get(currentLang, kVocabulary) ]_vars

\* C21 witness: the word the service returned stands after the word the
\* record had
C21_Witness ==
  /\ pending["extend"] = 0
  /\ ~isExtending
  /\ WordsOf(currentLang) = <<Word(<<49>>, sPa), Word(<<50>>, sStressed)>>

\* ------------------------------------------------------------------------
\* the storage item holds text that JSON.parse refuses
StorageCorrupt == Truthy(localStorage) /\ ~JSONParse(localStorage.s).ok

\* C22: when the page is opened on a storage item that is not JSON (and on
\* no share link that decodes), the mount effect leaves the page on HOME
\* with an empty saved collection and the empty record, and the error
\* notification is set.
C22_CorruptStorageReported ==
  [][ ( /\ StorageCorrupt
        /\ ~DecodeShare(OrElse(SearchParamsGetShare(search), Str(sEmpty)).s).ok
        /\ Startup ) =>
        /\ appState' = "HOME"
        /\ savedLangs' = Arr(<<>>)
        /\ currentLang' = EmptyLang
        /\ error' # NoError ]_vars

\* ------------------------------------------------------------------------
\* C23: handleStartNew can be called on every view of a running page; it
\* makes the current record one with an empty name, description and vibe,
\* no phonemes, no words, no id and no createdAt, empties the chat
\* transcript, the translation result and the error notification, and
\* shows the editor; the saved collection and the storage item stay as
\* they are.
C23_StartNewFrame ==
  /\ [](pc = "run" => ENABLED HandleStartNew)
  /\ [][ HandleStartNew =>
          /\ \A key \in {kName, kDescription, kVibe} :
               Get(currentLang', key) = Str(sEmpty)
          /\ \A key \in {kPhonemes, kVocabulary} :
               Get(currentLang', key) = Arr(<<>>)
          /\ \A key \in {kId, kCreatedAt} : ~HasKey(currentLang', key)
          /\ assistantChat' = <<>>
          /\ translationResult' = Null
          /\ error' = NoError
          /\ appState' = "EDITOR"
          /\ savedLangs' = savedLangs
          /\ localStorage' = localStorage ]_vars

\* C23 witness: a new project was started from a record whose assistant
\* had been asked a question that is still unanswered
C23_Witness ==
  /\ pc = "run" /\ appState = "EDITOR"
  /\ currentLang = EmptyLang
  /\ pending["ask"] = 1
  /\ assistantChat = <<>>
  /\ Len(savedLangs.a) = 2
  /\ localStorage # Null

\* ------------------------------------------------------------------------
\* what a generation or an extension writes
CoreKeys == {kDescription, kGrammar, kVocabulary}

\* a call of this kind settles that was made for a record replaced since
\* (by New Project, the library's Edit button or an import)
SettlesLate(kind) == superseded'[kind] < superseded[kind]

\* C24: when a generation or an extension settles that was requested for a
\* record the user has since replaced, the description, the grammar and
\* the vocabulary of the record now current stay as they are.
C24_LateResultNotMerged ==
  [][ /\ \A o \in GenerateOutcomes :
           (SettleGenerate(o) /\ SettlesLate("generate")) =>
             \A key \in CoreKeys : Get(currentLang', key) = Get(currentLang, key)
      /\ \A o \in ExtendOutcomes :
           (SettleExtend(o) /\ SettlesLate("extend")) =>
             \A key \in CoreKeys : Get(currentLang', key) = Get(currentLang, key) ]_vars

\* ------------------------------------------------------------------------
\* C25: isGenerating is true in every state in which a generation call is
\* awaiting the service, also when two calls overlap.
C25_GeneratingWhileOutstanding ==
  pending["generate"] > 0 => isGenerating

\* ------------------------------------------------------------------------
\* the kinds whose handler looks at its own loading flag
GuardedKinds == {"extend", "translate", "ask"}

C27_FlagsComeDown ==
  /\ [](\A k \in Kinds : FlagOf[k] => pending[k] > 0)
  /\ \A k \in Kinds : []<>(~FlagOf[k])

\* C27 witness: a suggestion call was rejected and the flag is down again
C27_Witness ==
  /\ ~isSuggestingSounds
  /\ pending["suggest"] = 0
  /\ error = "Sound suggestion failed."

\* ------------------------------------------------------------------------
\* C28: in every reachable state each assistant entry of the chat
\* transcript comes right after a user entry, the one it answers.
C28_ChatWellPaired ==
  \A i \in 1..Len(assistantChat) :
    assistantChat[i].role = "assistant" =>
      i > 1 /\ assistantChat[i - 1].role = "user"

\* ------------------------------------------------------------------------
\* C29: in every reachable state no two records of the saved collection
\* have the same id (the stored collection a page starts from has distinct
\* ids, and the ids drawn for new records are fresh).
C29_SavedIdsDistinct ==
  \A i, j \in 1..Len(savedLangs.a) :
    Get(savedLangs.a[i], kId) = Get(savedLangs.a[j], kId) => i = j

\* C29 witness: the shared record was saved under a fresh id, opened from
\* the library and saved again; the library holds it once, with the two
\* records stored before
C29_Witness ==
  /\ saves = 2
  /\ IdsOf(savedLangs.a) = <<Str(FreshIds[1]), Str(<<98>>), Str(<<97>>)>>
  /\ currentLang = savedLangs.a[1]

\* ------------------------------------------------------------------------
\* the shape of a Conlang record: a string name, list-valued phonemes and
\* vocabulary, a grammar object
IsConlang(x) ==
  /\ IsObj(x)
  /\ IsStr(Get(x, kName))
  /\ IsArr(Get(x, kPhonemes))
  /\ IsArr(Get(x, kVocabulary))
  /\ IsObj(Get(x, kGrammar))

\* C30: the record that an import or a share link installs has the shape
\* of a Conlang record; a file that holds a JSON document of another shape
\* is refused, the error notification set and the current record and the
\* view left as they are.
C30_OnlyConlangInstalled ==
  [][ /\ ((ReaderOnload \/ Startup) /\ currentLang' # currentLang) =>
           IsConlang(currentLang')
      /\ ( /\ ReaderOnload
           /\ JSONParse(reading.s).ok
           /\ ~IsConlang(JSONParse(reading.s).v) ) =>
           /\ error' # NoError
           /\ currentLang' = currentLang
           /\ appState' = appState ]_vars

====
